---- MODULE Spec2Model ----
(***************************************************************************)
(* Model of watch_psoas.py: one check cycle (main / run_once) of the page  *)
(* watcher, its State Store (three files) and its two notifier channels.   *)
(*                                                                         *)
(* Strings are sequences of one-character strings.  Two letters stand for  *)
(* fixed substrings of a URL: "O" is the origin "https://www.psoas.fi" and *)
(* "P" is the detail-page prefix "/en/apartments/".  An optional value     *)
(* (None | x) is a sequence of length 0 or 1.                              *)
(***************************************************************************)
EXTENDS Integers, Sequences, FiniteSets, TLC

\* ------------------------------------------------------------------ bounds
\* Number of distinct HTML pages the fetch collaborator may return.
NumPages == 6

\* ------------------------------------------------------- string primitives
None == <<>>
Some(x) == <<x>>

\* str.strip() with no argument strips whitespace.
Whitespace == {" ", "\n"}

RECURSIVE lstrip(_, _)
lstrip(s, chars) ==
  IF s # <<>> /\ Head(s) \in chars THEN lstrip(Tail(s), chars) ELSE s

RECURSIVE rstrip(_, _)
rstrip(s, chars) ==
  IF s # <<>> /\ s[Len(s)] \in chars THEN rstrip(SubSeq(s, 1, Len(s) - 1), chars) ELSE s

strip(s) == rstrip(lstrip(s, Whitespace), Whitespace)

\* abs_url.rstrip("/")
rstrip_slash(s) == rstrip(s, {"/"})

\* tail.strip("/")
strip_slash(s) == rstrip(lstrip(s, {"/"}), {"/"})

Contains(s, c) == \E i \in 1..Len(s) : s[i] = c

\* s.split(c)[-1]: what follows the last occurrence of c (all of s if none).
split_last(s, c) ==
  IF ~Contains(s, c) THEN s
  ELSE LET i == CHOOSE k \in 1..Len(s) : s[k] = c /\ \A j \in (k+1)..Len(s) : s[j] # c
       IN  SubSeq(s, i + 1, Len(s))

\* str.splitlines(): "\n" separates lines; no empty last line.
RECURSIVE splitlines(_)
splitlines(s) ==
  IF s = <<>> THEN <<>>
  ELSE IF ~Contains(s, "\n") THEN <<s>>
  ELSE LET i == CHOOSE k \in 1..Len(s) : s[k] = "\n" /\ \A j \in 1..(k-1) : s[j] # "\n"
       IN  <<SubSeq(s, 1, i - 1)>> \o splitlines(SubSeq(s, i + 1, Len(s)))

\* Code point order of the characters used, for sorted().
Ord(c) ==
  CASE c = "\n" -> 10
    [] c = " "  -> 32
    [] c = "#"  -> 35
    [] c = "<"  -> 60
    [] c = ">"  -> 62
    [] c = "H"  -> 105
    [] c = "P"  -> 46
    [] c = "/"  -> 47
    [] c = "?"  -> 63
    [] c = "O"  -> 104
    [] c = "a"  -> 97  [] c = "b" -> 98  [] c = "c" -> 99  [] c = "d" -> 100
    [] c = "e"  -> 101 [] c = "f" -> 102 [] c = "g" -> 103 [] c = "h" -> 105
    [] c = "i"  -> 106 [] c = "j" -> 107 [] c = "k" -> 108 [] c = "l" -> 109
    [] c = "q"  -> 113 [] c = "x" -> 120 [] c = "y" -> 121
    [] OTHER    -> 127

RECURSIVE StrLess(_, _)
StrLess(s, t) ==
  IF t = <<>> THEN FALSE
  ELSE IF s = <<>> THEN TRUE
  ELSE IF Ord(Head(s)) # Ord(Head(t)) THEN Ord(Head(s)) < Ord(Head(t))
  ELSE StrLess(Tail(s), Tail(t))

\* sorted(set of str) as a list
RECURSIVE sorted(_)
sorted(S) ==
  IF S = {} THEN <<>>
  ELSE LET m == CHOOSE x \in S : \A y \in S \ {x} : StrLess(x, y)
       IN  <<m>> \o sorted(S \ {m})

Range(s) == {s[i] : i \in 1..Len(s)}

RECURSIVE SelectNonEmpty(_)
SelectNonEmpty(ls) ==
  IF ls = <<>> THEN <<>>
  ELSE IF Head(ls) # <<>> THEN <<Head(ls)>> \o SelectNonEmpty(Tail(ls))
  ELSE SelectNonEmpty(Tail(ls))

RECURSIVE join_lines(_)
\* "\n".join(lines)
join_lines(ls) ==
  IF ls = <<>> THEN <<>>
  ELSE IF Len(ls) = 1 THEN ls[1]
  ELSE ls[1] \o <<"\n">> \o join_lines(Tail(ls))

RECURSIVE strip_each(_)
strip_each(ls) ==
  IF ls = <<>> THEN <<>> ELSE <<strip(Head(ls))>> \o strip_each(Tail(ls))

\* ------------------------------------------------------------ HTML pages
\* A document is the sequence of its elements in document order; an
\* element has a tag, an optional href attribute and a text body.
Elem(tag, href, body) == [tag |-> tag, href |-> href, body |-> body]

DEFAULT_URL == <<"O", "P", "?", "q">>

\* Pages the site may serve, most useful first.
PageTable(i) ==
  CASE i = 1 -> << Elem("p", None, <<"h", "i">>) >>
    [] i = 2 -> << Elem("p", None, <<" ", "h", "i", " ">>),
                   Elem("script", None, <<"x">>),
                   Elem("a", Some(<<"P", "a">>), <<"a">>) >>
    [] i = 3 -> << Elem("p", None, <<"h", "i">>),
                   Elem("a", Some(<<"P", "a", "/">>), <<"a">>),
                   Elem("a", Some(<<"b">>), <<"b">>) >>
    [] i = 4 -> << Elem("p", None, <<"h", "i">>),
                   Elem("a", Some(<<" ", "O", "P", "a">>), <<"a">>),
                   Elem("a", Some(<<"P", "b", "?", "q">>), <<"\n", "b">>) >>
    [] i = 5 -> << Elem("p", None, <<"h", "i">>),
                   Elem("a", Some(<<"P", "x", " ", "/">>), <<"a">>),
                   Elem("a", Some(<<"P">>), <<" ">>) >>
    [] i = 6 -> << Elem("p", None, <<"y">>),
                   Elem("a", Some(<<"P", "a">>), <<>>), Elem("a", Some(<<"P", "b">>), <<>>),
                   Elem("a", Some(<<"P", "c">>), <<>>), Elem("a", Some(<<"P", "d">>), <<>>),
                   Elem("a", Some(<<"P", "e">>), <<>>), Elem("a", Some(<<"P", "f">>), <<>>),
                   Elem("a", Some(<<"P", "g">>), <<>>), Elem("a", Some(<<"P", "h">>), <<>>),
                   Elem("a", Some(<<"P", "i">>), <<>>), Elem("a", Some(<<"P", "j">>), <<>>),
                   Elem("a", Some(<<"P", "k">>), <<>>) >>
    [] i = 7 -> << Elem("p", None, <<"y">>),
                   Elem("a", None, <<>>),
                   Elem("a", Some(<<"/", "x", "P", "a">>), <<>>) >>
    [] OTHER -> << Elem("p", None, <<"y", "\n", "\n", "x">>),
                   Elem("a", Some(<<"P", "/">>), <<>>) >>

Pages == {PageTable(i) : i \in 1..NumPages}

\* ------------------------------------------------------- pure functions
\* html.parser on a string s: "<" followed by a letter opens a tag that runs
\* to the next ">"; a "<" with no letter after it, or with no ">" before
\* the end of the input, is character data.
IsTagStart(s) ==
  /\ Len(s) >= 2 /\ s[1] = "<" /\ s[2] \in {"a", "b"}
  /\ \E k \in 3..Len(s) : s[k] = ">"

TagEnd(s) == CHOOSE k \in 3..Len(s) : s[k] = ">" /\ \A j \in 3..(k - 1) : s[j] # ">"

RECURSIVE text_runs(_, _)
\* The strings of character data between the tags of s; cur is the string
\* being collected.
text_runs(s, cur) ==
  IF s = <<>> THEN (IF cur = <<>> THEN <<>> ELSE <<cur>>)
  ELSE IF IsTagStart(s)
  THEN (IF cur = <<>> THEN <<>> ELSE <<cur>>)
       \o text_runs(SubSeq(s, TagEnd(s) + 1, Len(s)), <<>>)
  ELSE text_runs(Tail(s), Append(cur, Head(s)))

\* BeautifulSoup(s, "html.parser") for a string with tags without
\* attributes: one element per string of character data.
parse_html(s) ==
  LET runs == text_runs(s, <<>>)
  IN  [i \in 1..Len(runs) |-> Elem("p", None, runs[i])]

RECURSIVE get_text(_)
\* soup.get_text(separator="\n", strip=True) after script/style/noscript
\* were decomposed: the stripped, non-empty text strings in document order.
get_text(html) ==
  IF html = <<>> THEN <<>>
  ELSE LET e == Head(html)
       IN  IF e.tag \in {"script", "style", "noscript"} \/ strip(e.body) = <<>>
           THEN get_text(Tail(html))
           ELSE <<strip(e.body)>> \o get_text(Tail(html))

normalize_text(html) ==
  LET text  == join_lines(get_text(html))
      lines == SelectNonEmpty(strip_each(splitlines(text)))
  IN  join_lines(lines)

\* sha256 is modelled as an injective tagging of the text.
stable_hash(text) == [sha256 |-> text]

\* urlunsplit leaves out an empty fragment: a "#" that ends the URL.
DropEmptyFragment(u) ==
  IF u # <<>> /\ u[Len(u)] = "#" /\ \A j \in 1..(Len(u) - 1) : u[j] # "#"
  THEN SubSeq(u, 1, Len(u) - 1) ELSE u

\* urllib.parse.urljoin for the reference shapes that occur: empty,
\* absolute, network-path ("//host/..., written "H" once resolved),
\* root-relative, query-only, fragment-only and path-relative references.
urljoin(base, href) == DropEmptyFragment(
  LET q    == IF Contains(base, "?")
              THEN SubSeq(base, 1, (CHOOSE k \in 1..Len(base) :
                        base[k] = "?" /\ \A j \in 1..(k-1) : base[j] # "?") - 1)
              ELSE base
      d    == IF \E k \in 1..Len(q) : q[k] \in {"P", "/"}
              THEN SubSeq(q, 1, CHOOSE k \in 1..Len(q) :
                        q[k] \in {"P", "/"} /\ \A j \in (k+1)..Len(q) : q[j] \notin {"P", "/"})
              ELSE q
  IN  IF href = <<>> THEN base
      ELSE IF Head(href) = "O" THEN href
      ELSE IF Head(href) = "/" /\ Len(href) >= 2 /\ href[2] \in {"/", "P"}
      THEN <<"H">> \o SubSeq(href, 3, Len(href))
      ELSE IF Head(href) \in {"P", "/"} THEN <<"O">> \o href
      ELSE IF Head(href) = "?" THEN q \o href
      ELSE IF Head(href) = "#" THEN base \o href
      ELSE d \o href)

RECURSIVE extract_listings(_, _)
extract_listings(html, base_url) ==
  IF html = <<>> THEN {}
  ELSE LET e    == Head(html)
           rest == extract_listings(Tail(html), base_url)
       IN  IF e.tag # "a" \/ e.href = None THEN rest
           ELSE LET abs_url == urljoin(base_url, strip(e.href[1]))
                    tail    == split_last(abs_url, "P")
                IN  IF Contains(abs_url, "P") /\ ~Contains(abs_url, "?")
                       /\ tail # <<>> /\ strip_slash(tail) # <<>>
                    THEN rest \cup {rstrip_slash(abs_url)}
                    ELSE rest

\* ----------------------------------------------------------- State Store
\* The state directory: each of last_hash.txt, last_text.txt and
\* last_listings.txt is absent (None) or holds its content (Some(c)).  The
\* listings file holds its lines, without the line ends.
NoFiles == [hash |-> None, text |-> None, listings |-> None]

\* What a completed write_state(h, text, listings) leaves on disk.
StateImage(h, text, listings) ==
  [hash |-> Some(h), text |-> Some(text), listings |-> Some(sorted(listings))]

\* {ln.strip() for ln in f if ln.strip()}
read_listings(lines) == {strip(lines[i]) : i \in 1..Len(lines)} \ {<<>>}

\* read_state giving up the whole stored state when any artifact is missing
\* or unreadable.
read_state_AllOrNothing(fs, failAt) ==
  IF failAt # "none" \/ fs.hash = None \/ fs.text = None \/ fs.listings = None
  THEN [last_hash |-> None, last_text |-> None, last_listings |-> {}]
  ELSE [last_hash |-> fs.hash, last_text |-> fs.text,
        last_listings |-> read_listings(fs.listings[1])]

\* read_state: the three files are read in order inside one try block;
\* failAt names the file whose open/read raises ("none": no read raises).
read_state(fs, failAt) ==
  LET okHash == failAt # "hash"
      okText == okHash /\ failAt # "text"
      okList == okText /\ failAt # "listings"
  IN  [last_hash     |-> IF okHash THEN fs.hash ELSE None,
       last_text     |-> IF okText THEN fs.text ELSE None,
       last_listings |-> IF okList /\ fs.listings # None
                         THEN read_listings(fs.listings[1]) ELSE {}]

\* ------------------------------------------------------------- messages
Min(a, b) == IF a < b THEN a ELSE b

BaselineMsg == [kind |-> "baseline", url |-> DEFAULT_URL]

\* NewListingsMsg with the summary line already added for 10 URLs.
NewListingsMsg_SummaryAtTen(new_listings) ==
  [kind  |-> "new",
   url   |-> DEFAULT_URL,
   count |-> Len(new_listings),
   shown |-> SubSeq(new_listings, 1, Min(Len(new_listings), 10)),
   more  |-> IF Len(new_listings) >= 10 THEN Some(Len(new_listings) - 10) ELSE None]

\* header count, the first 10 URLs, "... and n more"
NewListingsMsg(new_listings) ==
  [kind  |-> "new",
   url   |-> DEFAULT_URL,
   count |-> Len(new_listings),
   shown |-> SubSeq(new_listings, 1, Min(Len(new_listings), 10)),
   more  |-> IF Len(new_listings) > 10 THEN Some(Len(new_listings) - 10) ELSE None]

\* ----------------------------------------------------------------- Differ
\* A line of a unified diff: its prefix ("---", "+++", "@@", " ", "-", "+")
\* and the rest of the line.
DiffLine(tag, s) == [tag |-> tag, s |-> s]

RECURSIVE CommonPrefixLen(_, _)
CommonPrefixLen(a, b) ==
  IF a = <<>> \/ b = <<>> \/ Head(a) # Head(b) THEN 0
  ELSE 1 + CommonPrefixLen(Tail(a), Tail(b))

Reverse(a) == [i \in 1..Len(a) |-> a[Len(a) + 1 - i]]

TagLines(tag, ls) == [i \in 1..Len(ls) |-> DiffLine(tag, ls[i])]

\* difflib.unified_diff(a, b, lineterm="", fromfile="previous",
\* tofile="current") for texts short enough for one hunk: nothing when a = b,
\* else the two file lines, the hunk line, and the lines of the hunk.  The
\* hunk keeps the common first and last lines as context and replaces what
\* lies between.
unified_diff(a, b) ==
  IF a = b THEN <<>>
  ELSE LET pre  == CommonPrefixLen(a, b)
           a1   == SubSeq(a, pre + 1, Len(a))
           b1   == SubSeq(b, pre + 1, Len(b))
           suf  == CommonPrefixLen(Reverse(a1), Reverse(b1))
       IN  << DiffLine("---", <<"previous">>), DiffLine("+++", <<"current">>),
              DiffLine("@@", <<Len(a), Len(b)>>) >>
           \o TagLines(" ", SubSeq(a, 1, pre))
           \o TagLines("-", SubSeq(a1, 1, Len(a1) - suf))
           \o TagLines("+", SubSeq(b1, 1, Len(b1) - suf))
           \o TagLines(" ", SubSeq(a1, Len(a1) - suf + 1, Len(a1)))

TruncationMarker == DiffLine("...", <<"(diff truncated)">>)

\* make_diff with the marker also appended to a diff of exactly max_lines lines.
make_diff_OffByOne(old, new, max_lines) ==
  LET lines == unified_diff(splitlines(old), splitlines(new))
  IN  IF Len(lines) >= max_lines
      THEN SubSeq(lines, 1, max_lines) \o <<TruncationMarker>>
      ELSE lines

\* make_diff: the lines of the returned string (joined with "\n" in the code).
make_diff(old, new, max_lines) ==
  LET lines == unified_diff(splitlines(old), splitlines(new))
  IN  IF Len(lines) > max_lines
      THEN SubSeq(lines, 1, max_lines) \o <<TruncationMarker>>
      ELSE lines

\* max_lines when make_diff is called without it.
DefaultMaxLines == 2000

\* subject and body of the change notification; diff_text is
\* make_diff(last_text or "", text).
ChangeMsg(last_hash, h, last_text, text) ==
  [kind |-> "change", url |-> DEFAULT_URL, last_hash |-> last_hash, h |-> h,
   old  |-> IF last_text = None THEN <<>> ELSE last_text[1],
   new  |-> text,
   diff_text |-> make_diff(IF last_text = None THEN <<>> ELSE last_text[1], text,
                           DefaultMaxLines)]

ErrorMsg(e) == [kind |-> "error", exc |-> e]

\* ------------------------------------------------------------ the state
VARIABLES
  files,   \* the state directory shared by all runs
  run,     \* per process: the position and locals of its main()
  fx       \* a call of one pure function on its own: arguments and result

vars == <<files, run, fx>>

\* No pure function is being called on its own.
NoCall == [fn |-> "none"]

AllProcs == {1, 2}
\* Runs are serialised by the external scheduler: one process at a time.
Procs == {1}

\* The environment variables as this run has seen them: None until the run
\* first calls os.getenv / env_bool for the variable, Some(value) afterwards.
\* telegram_conf: TELEGRAM_BOT_TOKEN and TELEGRAM_CHAT_ID are both set;
\* email_conf: the SMTP user, password, sender and recipient are all set.
NoEnv == [notify_first |-> None, email_on_error |-> None, telegram_on_error |-> None,
          telegram_conf |-> None, email_conf |-> None]

\* os.getenv may return v for the variable: it has no other value in this run.
Getenv(r, name, v) == r.env[name] = None \/ r.env[name] = Some(v)
Seen(r, name, v) == [r EXCEPT !.env[name] = Some(v)]

\* A process that has not started main().
IdleRun ==
  [pc |-> "idle", env |-> NoEnv, html |-> None, text |-> <<>>, h |-> None,
   listings |-> {}, last_hash |-> None, last_text |-> None, last_listings |-> {},
   new_listings |-> <<>>, path |-> "none", message |-> ErrorMsg("none"),
   exc |-> "none", read_failed |-> "none", log |-> <<>>, rc |-> -1,
   files0 |-> NoFiles, prev |-> [html |-> None, rc |-> -1], repeat |-> FALSE]

Init ==
  /\ files = NoFiles
  /\ run = [p \in AllProcs |-> IdleRun]
  /\ fx = NoCall

Set(p, r) == run' = [run EXCEPT ![p] = r] /\ fx' = fx

SendEvent(chan, msg, out) == [op |-> "send", chan |-> chan, msg |-> msg, out |-> out]
WriteEvent(file) == [op |-> "write", file |-> file]

\* The attempts of the run to send a message of this kind on this channel.
Attempts(r, chan, kind) ==
  {i \in 1..Len(r.log) : /\ r.log[i].op = "send"
                         /\ r.log[i].chan = chan
                         /\ r.log[i].msg.kind = kind}

\* sys.exit(code)
Exit(r, code) == [r EXCEPT !.pc = "done", !.rc = code]

\* An exception leaves run_once and reaches the except clause of main.
Raise(r, e) == [r EXCEPT !.pc = "err_email", !.exc = e, !.prev = IdleRun.prev]

\* --------------------------------------------------------------- actions
\* main() is started by the scheduler; the environment is read.
Start(p) ==
  /\ run[p].pc \in {"idle", "done"}
  /\ \E notify_first \in BOOLEAN :
       Set(p, [IdleRun EXCEPT !.pc = "fetch", !.env.notify_first = Some(notify_first),
                              !.files0 = files,
                              !.prev = [html |-> run[p].html, rc |-> run[p].rc]])
  /\ UNCHANGED files

\* fetch succeeds; the Snapshot of this run is computed.  repeat records
\* that the run before this one returned 0 and had fetched the same HTML.
FetchOk(p) ==
  /\ run[p].pc = "fetch"
  /\ \E html \in Pages :
       LET text == normalize_text(html)
       IN  Set(p, [run[p] EXCEPT !.pc = "read", !.html = Some(html), !.text = text,
                                 !.repeat = (run[p].prev = [html |-> Some(html), rc |-> 0]),
                                 !.prev = IdleRun.prev,
                                 !.h = Some(stable_hash(text)),
                                 !.listings = extract_listings(html, DEFAULT_URL)])
  /\ UNCHANGED files

\* requests.get or raise_for_status raises.
FetchFail(p) ==
  /\ run[p].pc = "fetch"
  /\ Set(p, Raise(run[p], "fetch"))
  /\ UNCHANGED files

\* Classify with write_state also called on the no-change branch.
Classify_AlwaysWrite(r, st) ==
  LET r1  == [r EXCEPT !.last_hash = st.last_hash, !.last_text = st.last_text,
                       !.last_listings = st.last_listings]
      new == sorted(r.listings \ st.last_listings)
  IN  IF st.last_hash = None
      THEN [r1 EXCEPT !.path = "baseline", !.pc = "w_hash"]
      ELSE IF new # <<>>
      THEN [r1 EXCEPT !.path = "new", !.new_listings = new,
                      !.message = NewListingsMsg(new), !.pc = "telegram"]
      ELSE IF r.h # st.last_hash
      THEN [r1 EXCEPT !.path = "change", !.pc = "telegram",
                      !.message = ChangeMsg(st.last_hash[1], r.h[1], st.last_text, r.text)]
      ELSE [r1 EXCEPT !.path = "same", !.pc = "w_hash"]

\* Classify with write_state called ahead of the sends on the Steady branches.
Classify_WriteBeforeNotify(r, st) ==
  LET r1  == [r EXCEPT !.last_hash = st.last_hash, !.last_text = st.last_text,
                       !.last_listings = st.last_listings]
      new == sorted(r.listings \ st.last_listings)
  IN  IF st.last_hash = None
      THEN [r1 EXCEPT !.path = "baseline", !.pc = "w_hash"]
      ELSE IF new # <<>>
      THEN [r1 EXCEPT !.path = "new", !.new_listings = new,
                      !.message = NewListingsMsg(new), !.pc = "w_hash"]
      ELSE IF r.h # st.last_hash
      THEN [r1 EXCEPT !.path = "change", !.pc = "w_hash",
                      !.message = ChangeMsg(st.last_hash[1], r.h[1], st.last_text, r.text)]
      ELSE Exit([r1 EXCEPT !.path = "same"], 0)

\* The branch run_once takes once the stored state was read.
Classify(r, st) ==
  LET r1  == [r EXCEPT !.last_hash = st.last_hash, !.last_text = st.last_text,
                       !.last_listings = st.last_listings]
      new == sorted(r.listings \ st.last_listings)
  IN  IF st.last_hash = None
      THEN [r1 EXCEPT !.path = "baseline", !.pc = "w_hash"]
      ELSE IF new # <<>>
      THEN [r1 EXCEPT !.path = "new", !.new_listings = new,
                      !.message = NewListingsMsg(new), !.pc = "telegram"]
      ELSE IF r.h # st.last_hash
      THEN [r1 EXCEPT !.path = "change", !.pc = "telegram",
                      !.message = ChangeMsg(st.last_hash[1], r.h[1], st.last_text, r.text)]
      ELSE Exit([r1 EXCEPT !.path = "same"], 0)

ReadState(p) ==
  /\ run[p].pc = "read"
  /\ \E failAt \in {"none", "hash", "text", "listings"} :
       /\ failAt # "none" => files[failAt] # None
       /\ Set(p, Classify([run[p] EXCEPT !.read_failed = failAt], read_state(files, failAt)))
  /\ UNCHANGED files

\* SendTelegram posting a second time after a failed post.
SendTelegram_Retry(p) ==
  /\ run[p].pc = "telegram"
  /\ \E conf \in BOOLEAN, out \in {"skipped", "ok", "failed"} :
       /\ Getenv(run[p], "telegram_conf", conf)
       /\ (out = "skipped") <=> ~conf
       /\ LET again == out = "failed" /\ Attempts(run[p], "telegram", run[p].message.kind) = {}
          IN  Set(p, [Seen(run[p], "telegram_conf", conf) EXCEPT
                        !.pc = IF again THEN "telegram" ELSE "email",
                        !.log = Append(@, SendEvent("telegram", run[p].message, out))])
  /\ UNCHANGED files

\* send_telegram: returns when unconfigured, catches a failed post.
SendTelegram(p) ==
  /\ run[p].pc = "telegram"
  /\ \E conf \in BOOLEAN, out \in {"skipped", "ok", "failed"} :
       /\ Getenv(run[p], "telegram_conf", conf)
       /\ (out = "skipped") <=> ~conf
       /\ Set(p, [Seen(run[p], "telegram_conf", conf) EXCEPT !.pc = "email",
                    !.log = Append(@, SendEvent("telegram", run[p].message, out))])
  /\ UNCHANGED files

\* Where run_once goes after its pair of sends.
AfterNotify(r) == IF r.path = "baseline" THEN Exit(r, 0) ELSE [r EXCEPT !.pc = "w_hash"]

\* SendEmail without the early return: the login with missing credentials raises.
SendEmail_NoConfigCheck(p) ==
  /\ run[p].pc = "email"
  /\ \E conf \in BOOLEAN, out \in {"ok", "failed"} :
       /\ Getenv(run[p], "email_conf", conf)
       /\ ~conf => out = "failed"
       /\ LET r == [Seen(run[p], "email_conf", conf) EXCEPT
                      !.log = Append(@, SendEvent("email", run[p].message, out))]
          IN  Set(p, IF out = "failed" THEN Raise(r, "smtp") ELSE AfterNotify(r))
  /\ UNCHANGED files

\* send_email: returns when unconfigured; an SMTP failure propagates.
SendEmail(p) ==
  /\ run[p].pc = "email"
  /\ \E conf \in BOOLEAN, out \in {"skipped", "ok", "failed"} :
       /\ Getenv(run[p], "email_conf", conf)
       /\ (out = "skipped") <=> ~conf
       /\ LET r == [Seen(run[p], "email_conf", conf) EXCEPT
                      !.log = Append(@, SendEvent("email", run[p].message, out))]
          IN  Set(p, IF out = "failed" THEN Raise(r, "smtp") ELSE AfterNotify(r))
  /\ UNCHANGED files

\* Where run_once goes after write_state returned.
AfterWrite(r) ==
  IF r.path = "baseline" /\ r.env.notify_first = Some(TRUE)
  THEN [r EXCEPT !.pc = "telegram", !.message = BaselineMsg]
  ELSE Exit(r, 0)

\* write_state: one open/write/close per file, in this order.
WriteHash(p) ==
  /\ run[p].pc = "w_hash"
  /\ files' = [files EXCEPT !.hash = run[p].h]
  /\ Set(p, [run[p] EXCEPT !.pc = "w_text", !.log = Append(@, WriteEvent("hash"))])

WriteText(p) ==
  /\ run[p].pc = "w_text"
  /\ files' = [files EXCEPT !.text = Some(run[p].text)]
  /\ Set(p, [run[p] EXCEPT !.pc = "w_list", !.log = Append(@, WriteEvent("text"))])

\* WriteListings keeping the URLs of the stored set in the file.
WriteListings_Merge(p) ==
  /\ run[p].pc = "w_list"
  /\ files' = [files EXCEPT !.listings = Some(sorted(run[p].listings \cup run[p].last_listings))]
  /\ Set(p, AfterWrite([run[p] EXCEPT !.log = Append(@, WriteEvent("listings"))]))

WriteListings(p) ==
  /\ run[p].pc = "w_list"
  /\ files' = [files EXCEPT !.listings = Some(sorted(run[p].listings))]
  /\ Set(p, AfterWrite([run[p] EXCEPT !.log = Append(@, WriteEvent("listings"))]))

\* makedirs or an open raises OSError: the file is left as it was.
WriteFail(p) ==
  /\ run[p].pc \in {"w_hash", "w_text", "w_list"}
  /\ Set(p, Raise(run[p], "io"))
  /\ UNCHANGED files

\* The process is killed between two file writes of write_state.
Interrupt(p) ==
  /\ run[p].pc \in {"w_text", "w_list"}
  /\ Set(p, Exit([run[p] EXCEPT !.exc = "killed"], 130))
  /\ UNCHANGED files

\* except clause of main, first statement: the error e-mail.  A failure of
\* send_email here leaves the handler: the interpreter exits with code 1.
ErrEmail(p) ==
  /\ run[p].pc = "err_email"
  /\ \E on \in BOOLEAN, conf \in BOOLEAN, out \in {"skipped", "ok", "failed"} :
       IF ~on
       THEN /\ conf /\ out = "ok"
            /\ Set(p, [Seen(run[p], "email_on_error", on) EXCEPT !.pc = "err_telegram"])
       ELSE /\ Getenv(run[p], "email_conf", conf)
            /\ (out = "skipped") <=> ~conf
            /\ LET r == [Seen(Seen(run[p], "email_on_error", on), "email_conf", conf) EXCEPT
                           !.log = Append(@, SendEvent("email", ErrorMsg(run[p].exc), out))]
               IN  Set(p, IF out = "failed" THEN Exit(r, 1)
                          ELSE [r EXCEPT !.pc = "err_telegram"])
  /\ UNCHANGED files

\* ErrTelegram with TELEGRAM_ON_ERROR not honoured: the send is always made.
ErrTelegram_IgnoresToggle(p) ==
  /\ run[p].pc = "err_telegram"
  /\ \E on \in BOOLEAN, conf \in BOOLEAN, out \in {"skipped", "ok", "failed"} :
       /\ Getenv(run[p], "telegram_conf", conf)
       /\ (out = "skipped") <=> ~conf
       /\ Set(p, Exit([Seen(Seen(run[p], "telegram_on_error", on), "telegram_conf", conf)
             EXCEPT !.log = Append(@, SendEvent("telegram", ErrorMsg(run[p].exc), out))], 1))
  /\ UNCHANGED files

\* except clause of main, second statement, then sys.exit(1).
ErrTelegram(p) ==
  /\ run[p].pc = "err_telegram"
  /\ \E on \in BOOLEAN, conf \in BOOLEAN, out \in {"skipped", "ok", "failed"} :
       IF ~on
       THEN /\ conf /\ out = "ok"
            /\ Set(p, Exit(Seen(run[p], "telegram_on_error", on), 1))
       ELSE /\ Getenv(run[p], "telegram_conf", conf)
            /\ (out = "skipped") <=> ~conf
            /\ Set(p, Exit([Seen(Seen(run[p], "telegram_on_error", on), "telegram_conf", conf)
                  EXCEPT !.log = Append(@, SendEvent("telegram", ErrorMsg(run[p].exc), out))], 1))
  /\ UNCHANGED files

Step(p) ==
  \/ Start(p)
  \/ FetchOk(p)
  \/ FetchFail(p)
  \/ ReadState(p)
  \/ SendTelegram(p)
  \/ SendEmail(p)
  \/ WriteHash(p)
  \/ WriteText(p)
  \/ WriteListings(p)
  \/ WriteFail(p)
  \/ Interrupt(p)
  \/ ErrEmail(p)
  \/ ErrTelegram(p)

Next == \E p \in Procs : Step(p)

Spec == Init /\ [][Next]_vars

\* ------------------------------------------------- reading a run's record
\* The run has left main().
Ended(r) == r.pc = "done"

\* run_once has read the stored state and chosen its branch.
Classified(r) == r.path # "none"

IsSend(e) == e.op = "send"
IsWrite(e) == e.op = "write"

\* The send attempts of the run, in order.
SendsOf(r) == SelectSeq(r.log, IsSend)
WritesOf(r) == SelectSeq(r.log, IsWrite)

KindsSent(r) == {e.msg.kind : e \in Range(SendsOf(r))}

\* The state directory holds exactly the Snapshot of the run.
Persisted(r) == r.h # None /\ files = StateImage(r.h[1], r.text, r.listings)

\* The files hold fingerprint, text and listing set of one page.
IsSnapshot(fs) ==
  \E html \in Pages :
    fs = StateImage(stable_hash(normalize_text(html)), normalize_text(html),
                    extract_listings(html, DEFAULT_URL))

\* write_state raised or the process was killed inside it.
WriteBroken(r) == r.exc \in {"io", "killed"}

\* Both channels were called once with the message, Telegram first.
NotifiedOnce(r, msg) ==
  /\ Len(SendsOf(r)) = 2
  /\ SendsOf(r)[1].chan = "telegram" /\ SendsOf(r)[1].msg = msg
  /\ SendsOf(r)[2].chan = "email" /\ SendsOf(r)[2].msg = msg

\* ------------------------------------------------------------------ C1
\* C1: a run that finds no stored fingerprint persists its Snapshot, sends
\* the baseline notification exactly once when NOTIFY_ON_FIRST_RUN is set
\* and nothing otherwise, sends no new-listings or change notification, and
\* returns 0 (write_state itself not failing).
C1_BaselineRun ==
  \A p \in AllProcs :
    LET r == run[p]
    IN  (Ended(r) /\ r.last_hash = None /\ Classified(r) /\ ~WriteBroken(r)) =>
          /\ r.rc = 0
          /\ Persisted(r)
          /\ KindsSent(r) \subseteq {"baseline"}
          /\ r.env.notify_first = Some(TRUE) => NotifiedOnce(r, BaselineMsg)
          /\ r.env.notify_first = Some(FALSE) => SendsOf(r) = <<>>

\* ------------------------------------------------------------------ C2
\* C2: a run that follows a run which returned 0 and fetches the same HTML
\* (its state reads not failing) sends nothing and writes nothing: the state
\* directory is as it was when the run started.
C2_RepeatIsSilent ==
  \A p \in AllProcs :
    LET r == run[p]
    IN  (Classified(r) /\ r.repeat /\ r.read_failed = "none") =>
          /\ Ended(r) /\ r.rc = 0
          /\ r.log = <<>>
          /\ files = r.files0

\* ------------------------------------------------------------------ C3
\* C3: a Steady run, started on a whole stored Snapshot, whose listing set
\* has URLs missing from the stored set sends the new-listings notification
\* naming exactly those URLs, sends no change notification, and persists its
\* Snapshot (state reads and write_state not failing).
C3_NewListingsRun ==
  \A p \in AllProcs :
    LET r    == run[p]
        diff == r.listings \ r.last_listings
    IN  (/\ Ended(r) /\ Classified(r) /\ ~WriteBroken(r)
         /\ IsSnapshot(r.files0) /\ r.read_failed = "none"
         /\ r.last_hash # None /\ diff # {}) =>
          /\ Len(SendsOf(r)) = 2
          /\ \A i \in 1..2 : /\ SendsOf(r)[i].msg.kind = "new"
                             /\ SendsOf(r)[i].msg.count = Cardinality(diff)
                             /\ Range(SendsOf(r)[i].msg.shown) = diff
          /\ Persisted(r)

\* ------------------------------------------------------------------ C4
\* C4: a Steady run, started on a whole stored Snapshot, with no new listing
\* and a fingerprint that differs from the stored one sends exactly one
\* notification, the change notification built from the stored text and the
\* new text, and then persists its Snapshot (state reads and write_state not
\* failing).
C4_ChangeRun ==
  \A p \in AllProcs :
    LET r == run[p]
    IN  (/\ Ended(r) /\ Classified(r) /\ ~WriteBroken(r)
         /\ IsSnapshot(r.files0) /\ r.read_failed = "none"
         /\ r.last_hash # None /\ r.listings \subseteq r.last_listings
         /\ r.h # r.last_hash) =>
          /\ NotifiedOnce(r, ChangeMsg(r.last_hash[1], r.h[1], r.files0.text, r.text))
          /\ Len(r.log) = 5 /\ \A i \in 3..5 : r.log[i].op = "write"
          /\ Persisted(r)

\* ------------------------------------------------------------------ C5
\* C5: a Steady run with no new listing and an unchanged fingerprint ends at
\* once with code 0, sends nothing and leaves the three files as they were,
\* also when its listing set is a strict subset of the stored one.
C5_NoChangeNoEffect ==
  \A p \in AllProcs :
    LET r == run[p]
    IN  (/\ Classified(r)
         /\ r.last_hash # None /\ r.listings \subseteq r.last_listings
         /\ r.h = r.last_hash) =>
          /\ Ended(r) /\ r.rc = 0
          /\ r.log = <<>>
          /\ files = r.files0

C5_Witness ==
  \E p \in AllProcs :
    LET r == run[p]
    IN  /\ Ended(r) /\ Classified(r) /\ r.read_failed = "none"
        /\ r.last_hash # None /\ r.h = r.last_hash
        /\ r.listings \subseteq r.last_listings /\ r.listings # r.last_listings
        /\ files = r.files0 /\ files.listings # Some(sorted(r.listings))

\* ------------------------------------------------------------------ C6
\* C6: whenever no run is in progress the state directory is empty or holds
\* one whole Snapshot: fingerprint, text and listing set of one page.
C6_StateIsOneSnapshot ==
  (\A p \in AllProcs : run[p].pc \in {"idle", "done"}) =>
     (files = NoFiles \/ IsSnapshot(files))

\* ------------------------------------------------------------------ C7
\* C7: a run that took the baseline, new-listings or change branch and had a
\* send of that notification fail still persists its Snapshot and exits
\* with code 0 (write_state not failing).
C7_SendFailureDoesNotAbort ==
  \A p \in AllProcs :
    LET r == run[p]
    IN  (/\ Ended(r) /\ ~WriteBroken(r)
         /\ \E e \in Range(SendsOf(r)) :
              e.out = "failed" /\ e.msg.kind \in {"baseline", "new", "change"}) =>
          /\ r.rc = 0
          /\ Persisted(r)

\* ------------------------------------------------------------------ C8
\* C8: when a send of a notification fails on one channel, the run still
\* comes to the other channel's send of that notification: for the three
\* notifications of run_once the other channel is attempted, and in the
\* error handler of main the other channel's toggle is consulted and, when
\* on, its send is attempted.
Other(chan) == IF chan = "email" THEN "telegram" ELSE "email"

OnErrorToggle(r, chan) ==
  IF chan = "email" THEN r.env.email_on_error ELSE r.env.telegram_on_error

C8_ChannelsIndependent ==
  \A p \in AllProcs :
    LET r == run[p]
    IN  Ended(r) =>
          \A e \in Range(SendsOf(r)) :
            e.out = "failed" =>
              IF e.msg.kind = "error"
              THEN /\ OnErrorToggle(r, Other(e.chan)) # None
                   /\ OnErrorToggle(r, Other(e.chan)) = Some(TRUE)
                        => Attempts(r, Other(e.chan), "error") # {}
              ELSE Attempts(r, Other(e.chan), e.msg.kind) # {}

\* ------------------------------------------------------------------ C9
\* C9: with both channels unconfigured, a run that takes a notifying branch
\* (baseline with notify-on-first-run, new listings, change) sends nothing,
\* persists its Snapshot and exits with code 0 (write_state not failing).
BothUnconfigured(r) ==
  r.env.telegram_conf = Some(FALSE) /\ r.env.email_conf = Some(FALSE)

C9_UnconfiguredStillPersists ==
  \A p \in AllProcs :
    LET r == run[p]
    IN  (Ended(r) /\ BothUnconfigured(r) /\ ~WriteBroken(r) /\ Classified(r)) =>
          /\ r.rc = 0
          /\ Persisted(r)
          /\ Len(SendsOf(r)) = 2
          /\ \A e \in Range(SendsOf(r)) : e.out = "skipped"

C9_Witness ==
  \E p \in AllProcs :
    LET r == run[p]
    IN  /\ Ended(r) /\ BothUnconfigured(r) /\ r.path = "change" /\ r.rc = 0
        /\ Persisted(r) /\ files # r.files0
        /\ \A e \in Range(SendsOf(r)) : e.out = "skipped"

\* ------------------------------------------------------------------ C10
\* C10: after a fetch failure the state is neither read nor written, only
\* error notifications are sent and only on a channel whose on-error toggle
\* is on, and the process exits with code 1; a run in which nothing raised
\* exits with code 0.
C10_FetchFailureAndExitCodes ==
  \A p \in AllProcs :
    LET r == run[p]
    IN  /\ r.exc = "fetch" =>
             /\ files = r.files0
             /\ ~Classified(r) /\ r.last_hash = None /\ WritesOf(r) = <<>>
             /\ KindsSent(r) \subseteq {"error"}
             /\ \A e \in Range(SendsOf(r)) : OnErrorToggle(r, e.chan) = Some(TRUE)
             /\ Ended(r) => r.rc = 1
        /\ (Ended(r) /\ r.exc = "none") => r.rc = 0

C10_Witness ==
  \E p \in AllProcs :
    LET r == run[p]
    IN  /\ Ended(r) /\ r.exc = "fetch" /\ r.rc = 1
        /\ files # NoFiles /\ files = r.files0
        /\ r.env.email_on_error = Some(FALSE)
        /\ \E e \in Range(SendsOf(r)) : e.chan = "telegram" /\ e.out = "ok"

\* ------------------------------------------------------------------ C11
\* A send of one of the three notifications of run_once.
IsNotify(e) == e.op = "send" /\ e.msg.kind \in {"baseline", "new", "change"}

\* C11 as stated: in no run does a notification send follow a state write.
C11_NotifyBeforePersist ==
  \A p \in AllProcs :
    LET r == run[p]
    IN  \A i \in 1..Len(r.log) : \A j \in 1..Len(r.log) :
          (i < j /\ r.log[i].op = "write") => ~IsNotify(r.log[j])

\* C11 (amended): fetch and classification precede every send and write of
\* run_once; on the new-listings and change branches both sends of the
\* notification precede the first file write and none follows a write; on
\* the baseline branch the three file writes precede the baseline sends.
C11_StepOrder ==
  \A p \in AllProcs :
    LET r == run[p]
    IN  /\ (\E i \in 1..Len(r.log) : IsWrite(r.log[i]) \/ IsNotify(r.log[i]))
             => (r.html # None /\ Classified(r))
        /\ r.path \in {"new", "change"} =>
             \A i \in 1..Len(r.log) :
               /\ IsNotify(r.log[i]) => (i <= 2 /\ r.log[i].msg.kind = r.path)
               /\ IsWrite(r.log[i]) =>
                    (i >= 3 /\ IsNotify(r.log[1]) /\ IsNotify(r.log[2]))
        /\ r.path = "baseline" =>
             \A i \in 1..Len(r.log) :
               /\ IsWrite(r.log[i]) => i <= 3
               /\ IsNotify(r.log[i]) =>
                    (i >= 4 /\ r.log[i].msg.kind = "baseline"
                     /\ \A k \in 1..3 : IsWrite(r.log[k]))

C11_Witness ==
  \E p \in AllProcs :
    LET r == run[p]
    IN  /\ Ended(r) /\ r.rc = 0 /\ r.path = "change" /\ Len(r.log) = 5
        /\ IsNotify(r.log[1]) /\ IsNotify(r.log[2])
        /\ \A i \in 3..5 : IsWrite(r.log[i])

\* ------------------------------------------------------------------ C12
\* C12: read_state, called on a whole stored Snapshot, does not raise, and a
\* failure reading one file leaves
\* the values returned for the other two files as they are without the
\* failure: each is the content of its file, absent or empty when the file
\* is missing.
C12_ReadsIndependent ==
  \A p \in AllProcs :
    LET r == run[p]
    IN  (Classified(r) /\ IsSnapshot(r.files0)) =>
          /\ r.exc # "read"
          /\ r.read_failed # "hash" => r.last_hash = r.files0.hash
          /\ r.read_failed # "text" => r.last_text = r.files0.text
          /\ r.read_failed # "listings" =>
               r.last_listings = read_state(r.files0, "none").last_listings
          /\ r.read_failed = "hash" => r.last_hash = None
          /\ r.read_failed = "text" => r.last_text = None
          /\ r.read_failed = "listings" => r.last_listings = {}

\* ------------------------------------------------------------------ C13
\* extract_listings on its own: pages of two anchors, one with a fixed
\* detail-page href and one with any href over ExtractChars, against three
\* base URLs.
MaxHrefLen == 3

ExtractChars == {"O", "P", "/", "?", "#", " ", "a"}

StringsOver(chars, n) == UNION {[1..k -> chars] : k \in 0..n}

BaseUrls == {DEFAULT_URL, <<"O", "P">>, <<"O", "/", "a">>}

InitExtract ==
  /\ files = NoFiles
  /\ run = [p \in AllProcs |-> IdleRun]
  /\ \E href \in StringsOver(ExtractChars, MaxHrefLen), base_url \in BaseUrls :
       fx = [fn |-> "extract_listings",
             html |-> << Elem("a", Some(<<"P", "a", "/">>), <<"a">>),
                         Elem("a", Some(href), <<>>) >>,
             base_url |-> base_url, out |-> None]

CallExtract ==
  /\ fx.fn = "extract_listings" /\ fx.out = None
  /\ fx' = [fx EXCEPT !.out = Some(extract_listings(fx.html, fx.base_url))]
  /\ UNCHANGED <<files, run>>

SpecExtract == InitExtract /\ [][CallExtract]_vars

\* The path of u after its i-th character, up to the query or fragment.
RECURSIVE PathFrom(_, _)
PathFrom(u, i) ==
  IF i > Len(u) \/ u[i] \in {"?", "#"} THEN <<>>
  ELSE <<u[i]>> \o PathFrom(u, i + 1)

\* u has the detail-page prefix followed by a non-empty path segment.
HasDetailSegment(u) ==
  \E i \in 1..Len(u) : u[i] = "P" /\ strip_slash(PathFrom(u, i + 1)) # <<>>

\* C13: every URL returned by extract_listings (here for the default base
\* URL) has the prefix /en/apartments/ followed by a non-empty path segment,
\* has no query string and no trailing slash; the bare prefix URL is never
\* returned.
C13_ListingUrlShape ==
  (fx.fn = "extract_listings" /\ fx.out # None /\ fx.base_url = DEFAULT_URL) =>
     \A u \in fx.out[1] :
       /\ HasDetailSegment(u)
       /\ ~Contains(u, "?")
       /\ u # <<>> /\ u[Len(u)] # "/"

\* ------------------------------------------------------------------ C14
\* make_diff on its own: texts of up to MaxDiffLines lines "a" or "b", and
\* every max_lines from 0 to beyond the longest diff.
MaxDiffLines == 2

DiffTexts == {join_lines(ls) : ls \in StringsOver({<<"a">>, <<"b">>}, MaxDiffLines)}

MaxLinesArgs == 0..(2 * MaxDiffLines + 4)

InitDiff ==
  /\ files = NoFiles
  /\ run = [p \in AllProcs |-> IdleRun]
  /\ \E old \in DiffTexts, new \in DiffTexts, max_lines \in MaxLinesArgs :
       fx = [fn |-> "make_diff", old |-> old, new |-> new, max_lines |-> max_lines,
             out |-> None]

CallDiff ==
  /\ fx.fn = "make_diff" /\ fx.out = None
  /\ fx' = [fx EXCEPT !.out = Some(make_diff(fx.old, fx.new, fx.max_lines))]
  /\ UNCHANGED <<files, run>>

SpecDiff == InitDiff /\ [][CallDiff]_vars

\* C14: make_diff returns at most max_lines diff lines plus one marker line;
\* the marker is there exactly when the unified diff is longer than
\* max_lines, after the first max_lines lines of the diff; otherwise the
\* whole diff is returned.
C14_DiffTruncation ==
  (fx.fn = "make_diff" /\ fx.out # None) =>
     LET d   == unified_diff(splitlines(fx.old), splitlines(fx.new))
         res == fx.out[1]
         m   == fx.max_lines
     IN  /\ Len(res) <= m + 1
         /\ (\E i \in 1..Len(res) : res[i] = TruncationMarker) <=> Len(d) > m
         /\ Len(d) <= m => res = d
         /\ Len(d) > m => /\ Len(res) = m + 1
                          /\ \A i \in 1..m : res[i] = d[i]
                          /\ res[m + 1] = TruncationMarker

C14_Witness ==
  /\ fx.fn = "make_diff" /\ fx.out # None
  /\ fx.max_lines = 4
  /\ Len(unified_diff(splitlines(fx.old), splitlines(fx.new))) = 6
  /\ Len(fx.out[1]) = 5 /\ fx.out[1][5] = TruncationMarker

\* ------------------------------------------------------------------ C15
\* normalize_text twice: first on a page with one text string of up to
\* MaxTextLen characters (the decoded character data, so "<" stands for an
\* escaped &lt; of the page source), then on its own output.
MaxTextLen == 5

NormChars == {"a", " ", "\n", "<", ">"}

InitNorm ==
  /\ files = NoFiles
  /\ run = [p \in AllProcs |-> IdleRun]
  /\ \E body \in StringsOver(NormChars, MaxTextLen) :
       fx = [fn |-> "normalize_text", html |-> <<Elem("p", None, body)>>,
             out |-> None, again |-> None]

CallNormalize ==
  /\ fx.fn = "normalize_text" /\ fx.out = None
  /\ fx' = [fx EXCEPT !.out = Some(normalize_text(fx.html))]
  /\ UNCHANGED <<files, run>>

CallNormalizeAgain ==
  /\ fx.fn = "normalize_text" /\ fx.out # None /\ fx.again = None
  /\ fx' = [fx EXCEPT !.again = Some(normalize_text(parse_html(fx.out[1])))]
  /\ UNCHANGED <<files, run>>

NextNorm == CallNormalize \/ CallNormalizeAgain

SpecNorm == InitNorm /\ [][NextNorm]_vars

\* C15 as stated: normalize_text applied to an output of normalize_text
\* returns it unchanged.
C15_Idempotent ==
  (fx.fn = "normalize_text" /\ fx.again # None) => fx.again = fx.out

\* On outputs with no "<" in them the second application changes nothing.
PlainTextIsFixed ==
  (fx.fn = "normalize_text" /\ fx.again # None /\ ~Contains(fx.out[1], "<"))
     => fx.again = fx.out

\* ------------------------------------------------------------------ C16
\* The fingerprint file was there at the start of the run and could be read.
FingerprintStored(r) == r.files0.hash # None /\ r.read_failed # "hash"

\* The listings file was not there, or reading it raised.
ListingsLost(r) == r.files0.listings = None \/ r.read_failed = "listings"

\* C16: a run takes the baseline branch exactly when it found no stored
\* fingerprint; with a fingerprint but without a readable listings file it
\* takes a Steady branch with an empty previous set, and a page with listings
\* then has all of them in the new-listings message.
C16_BaselineIffNoFingerprint ==
  \A p \in Procs :
    LET r == run[p]
    IN  Classified(r) =>
          /\ (r.path = "baseline") <=> ~FingerprintStored(r)
          /\ (FingerprintStored(r) /\ ListingsLost(r)) =>
               /\ r.last_listings = {}
               /\ r.listings # {} =>
                    /\ r.path = "new"
                    /\ Range(r.new_listings) = r.listings
                    /\ Len(r.new_listings) = Cardinality(r.listings)
                    /\ r.message.kind = "new"
                    /\ r.message.count = Cardinality(r.listings)

C16_Witness ==
  \E p \in Procs :
    LET r == run[p]
    IN  /\ Ended(r) /\ r.rc = 0
        /\ r.files0.hash # None /\ r.files0.listings = None /\ r.read_failed = "none"
        /\ r.path = "new" /\ Len(r.new_listings) >= 2
        /\ NotifiedOnce(r, r.message)

\* ------------------------------------------------------------------ C17
\* The calls of the channel's send function in the run, as positions of the log.
SendsOn(r, chan) == {i \in 1..Len(r.log) : r.log[i].op = "send" /\ r.log[i].chan = chan}

Delivered(r, chan) == {i \in SendsOn(r, chan) : r.log[i].out = "ok"}

WritesTo(r, file) == {i \in 1..Len(r.log) : r.log[i].op = "write" /\ r.log[i].file = file}

NoSendFailed(r) == \A i \in 1..Len(r.log) : r.log[i].op = "send" => r.log[i].out # "failed"

\* C17 as stated, for the runs that start from a stored Snapshot and in
\* which no send fails: a channel carries at most one message per run and
\* each state file is written at most once.
C17_OneSendPerChannel ==
  \A p \in Procs :
    LET r == run[p]
    IN  (IsSnapshot(r.files0) /\ NoSendFailed(r)) =>
          /\ \A chan \in {"telegram", "email"} : Cardinality(Delivered(r, chan)) <= 1
          /\ \A file \in {"hash", "text", "listings"} : Cardinality(WritesTo(r, file)) <= 1

\* C17 (amended): nothing is retried.  Of two calls of one channel in a
\* run the first carries the notification of the run and the second the
\* error notification, so a channel is called at most twice and with each
\* message at most once; write_state is entered at most once, so the writes
\* of a run are a prefix of hash, text, listings.
C17_NoRetry ==
  \A p \in Procs :
    LET r == run[p]
        w == WritesOf(r)
    IN  /\ \A i, j \in 1..Len(r.log) :
             (/\ i < j
              /\ r.log[i].op = "send" /\ r.log[j].op = "send"
              /\ r.log[i].chan = r.log[j].chan)
               => (r.log[i].msg.kind # "error" /\ r.log[j].msg.kind = "error")
        /\ Len(w) <= 3
        /\ \A i \in 1..Len(w) : w[i].file = <<"hash", "text", "listings">>[i]

C17_Witness ==
  \E p \in Procs :
    LET r == run[p]
    IN  /\ Ended(r) /\ r.rc = 1 /\ r.exc = "io" /\ r.path = "change"
        /\ Len(r.log) = 6
        /\ \A i \in 1..Len(r.log) : r.log[i].op = "send" => r.log[i].out = "ok"
        /\ Cardinality(SendsOn(r, "telegram")) = 2
        /\ Cardinality(SendsOn(r, "email")) = 2
        /\ Len(WritesOf(r)) = 2

\* ------------------------------------------------------------------ C18
\* The URLs of the run's page that the stored listing set does not have.
NewUrls(r) == r.listings \ r.last_listings

\* C18: on the new-listings branch the message sent has the number n of new
\* URLs in its header, lists the min(n, 10) smallest of them in ascending
\* order, and carries the summary line, with n - 10, exactly when n > 10.
C18_NewListingsMessage ==
  \A p \in Procs :
    LET r == run[p]
        n == Cardinality(NewUrls(r))
        m == r.message
    IN  r.path = "new" =>
          /\ n >= 1
          /\ m.kind = "new" /\ m.count = n
          /\ Len(m.shown) = Min(n, 10)
          /\ \A i \in 1..Len(m.shown) : m.shown[i] \in NewUrls(r)
          /\ \A i \in 1..(Len(m.shown) - 1) : StrLess(m.shown[i], m.shown[i + 1])
          /\ \A u \in NewUrls(r) \ Range(m.shown) :
               \A i \in 1..Len(m.shown) : StrLess(m.shown[i], u)
          /\ n > 10 => m.more = Some(n - 10)
          /\ n <= 10 => m.more = None
          /\ \A i \in 1..Len(r.log) :
               (r.log[i].op = "send" /\ r.log[i].msg.kind # "error") => r.log[i].msg = m

C18_Witness ==
  \E p \in Procs :
    LET r == run[p]
    IN  /\ Ended(r) /\ r.rc = 0 /\ r.path = "new"
        /\ r.last_listings # {}
        /\ Cardinality(NewUrls(r)) = 11
        /\ Len(r.message.shown) = 10 /\ r.message.more = Some(1)
        /\ NotifiedOnce(r, r.message)

C18_WitnessTen ==
  \E p \in Procs :
    LET r == run[p]
    IN  /\ Ended(r) /\ r.rc = 0 /\ r.path = "new"
        /\ Cardinality(NewUrls(r)) = 10
        /\ Len(r.message.shown) = 10 /\ r.message.more = None

\* ------------------------------------------------------------------ C19
\* Two processes started by the scheduler without a lock, each running
\* main() once, on a state directory that holds the Snapshot of an earlier
\* baseline run.  Nothing fails in these runs: the site serves one of
\* RacePages, both channels are configured and deliver, every read and
\* write of the state directory succeeds.
StoredPage == PageTable(1)

Stored ==
  StateImage(stable_hash(normalize_text(StoredPage)), normalize_text(StoredPage),
             extract_listings(StoredPage, DEFAULT_URL))

RacePages == {PageTable(2), PageTable(4), PageTable(5)}

Smooth(r) ==
  /\ r.env.notify_first = Some(FALSE)
  /\ r.html # None => r.html[1] \in RacePages
  /\ r.read_failed = "none" /\ r.exc = "none"
  /\ \A i \in 1..Len(r.log) : r.log[i].op = "send" => r.log[i].out = "ok"

InitRace ==
  /\ files = Stored
  /\ run = [p \in AllProcs |-> IdleRun]
  /\ fx = NoCall

\* The steps of main() in such a run.
StartRace(p) == run[p].pc = "idle" /\ Start(p) /\ Smooth(run'[p])
FetchRace(p) == FetchOk(p) /\ Smooth(run'[p])
ReadRace(p) == ReadState(p) /\ Smooth(run'[p])
TelegramRace(p) == SendTelegram(p) /\ Smooth(run'[p])
EmailRace(p) == SendEmail(p) /\ Smooth(run'[p])

NextRace ==
  \E p \in AllProcs :
    \/ StartRace(p)
    \/ FetchRace(p)
    \/ ReadRace(p)
    \/ TelegramRace(p)
    \/ EmailRace(p)
    \/ WriteHash(p)
    \/ WriteText(p)
    \/ WriteListings(p)

SpecRace == InitRace /\ [][NextRace]_vars

\* The run read the state as it was stored before either run wrote.
ReadStored(r) ==
  /\ Classified(r) /\ r.read_failed = "none"
  /\ r.last_hash = Stored.hash /\ r.last_text = Stored.text
  /\ r.last_listings = read_listings(Stored.listings[1])

\* C19: overlapping runs are not serialised.  Each state file holds what
\* was stored before or the artifact of either run, file by file; and a run
\* that read the state before the other run wrote it takes its branch from
\* that state, whatever the other run has sent or written since.
C19_UnserialisedRuns ==
  /\ files.hash \in {Stored.hash} \cup {run[p].h : p \in AllProcs}
  /\ files.text \in {Stored.text} \cup {Some(run[p].text) : p \in AllProcs}
  /\ files.listings \in {Stored.listings} \cup {Some(sorted(run[p].listings)) : p \in AllProcs}
  /\ \A p \in AllProcs :
       LET r == run[p]
       IN  ReadStored(r) =>
             /\ r.path # "baseline"
             /\ r.listings \ r.last_listings # {} => r.path = "new"
             /\ (r.listings \ r.last_listings = {} /\ r.h # r.last_hash) => r.path = "change"

\* Both runs sent the same new-listings notification on both channels, and
\* the directory is left with the fingerprint of one run and the text of
\* the other.
C19_Witness ==
  /\ \A p \in AllProcs :
       /\ Ended(run[p]) /\ run[p].rc = 0 /\ run[p].path = "new"
       /\ ReadStored(run[p])
       /\ NotifiedOnce(run[p], run[p].message)
       /\ \A i \in 1..Len(run[p].log) : run[p].log[i].op = "send" => run[p].log[i].out = "ok"
  /\ run[1].message = run[2].message
  /\ run[1].h # run[2].h /\ run[1].text # run[2].text
  /\ files.hash = run[1].h /\ files.text = Some(run[2].text)
  /\ ~IsSnapshot(files)

\* ------------------------------------------------------------------ C20
\* The listing set of the Snapshot last persisted, as write_state wrote it.
PersistedListings(fs) == IF fs.listings = None THEN {} ELSE Range(fs.listings[1])

\* C20: a run that starts on a persisted Snapshot and reads it without
\* failure reports as new no URL of that Snapshot's listing set: a URL is
\* reported again only after a persisted Snapshot without it.
C20_KnownUrlNotReportedAgain ==
  \A p \in Procs :
    LET r == run[p]
    IN  (Classified(r) /\ IsSnapshot(r.files0) /\ r.read_failed = "none") =>
          \A i \in 1..Len(r.new_listings) :
            r.new_listings[i] \notin PersistedListings(r.files0)

====
